---- MODULE Spec2Model ----
(***************************************************************************)
(* Model of the hair-colour remapping and quantile-grid selection of the   *)
(* 3colors application (src/src/color_processing.py,                       *)
(* src/src/quantile_analysis.py), and of the sample selection of the       *)
(* app's first tab (src/app.py).                                           *)
(*                                                                         *)
(* Images, masks and numpy arrays are objects on a heap, addressed by      *)
(* reference, so that copying (Image.convert, np.array, Image.fromarray)   *)
(* and in-place writes (image_np[y, x] = ...) are told apart.  A pixel     *)
(* grid of size <<w, h>> is a row-major sequence of w*h pixels.            *)
(***************************************************************************)
EXTENDS Integers, Sequences, FiniteSets, TLC

VARIABLES
    heap,             \* sequence of objects: PIL images and numpy arrays
    color_data,       \* the row of colour data passed to remap_hair_colors
    image,            \* local `image` of remap_hair_colors (a reference)
    mask,             \* local `mask` of remap_hair_colors (a reference)
    image_np,         \* reference of the array np.array(image), 0 before
    non_black_mask,   \* boolean array over the pixels, <<>> before
    cluster_centers,  \* the 3 RGB cluster centres, <<>> before
    indices,          \* hair positions still to be visited by the loop
    pc,               \* position in remap_hair_colors
    result,           \* reference returned to the caller, 0 before
    exc,              \* exception that leaves remap_hair_colors, "None" if none
    logged,           \* TRUE once logger.error was called
    df_region,        \* rows passed to select_representative_samples_quantile
    grid_size,        \* its grid_size argument
    df_lch,           \* the per-row LCh table, with the bin columns once cut
    bins,             \* [L, C, h]: the quantile boundaries, times grid_size
    selected_lc,      \* labels of the L-C representatives, in cell order
    selected_lh,      \* labels of the L-h representatives, in cell order
    qpc,              \* position in select_representative_samples_quantile
    df_data,          \* df of the first tab: the rows of load_respondent_data
    sample_index,     \* argument of process_hair_color_remapping_with_sample
    reruns,           \* how many times st.rerun() restarted the script
    sample_select,    \* the option chosen in the "sample_select" selectbox
    clicked,          \* TRUE when this run is due to 'Use Best Balanced'
    samples_info,     \* the list of get_sample_info(df)
    best_sample,      \* local of the button's branch: <<>> or <<the entry>>
    selected_sample_index,  \* local of the script: <<>> (None) or <<the index>>
    selected_sample,  \* local of the script: <<>> or <<the entry>>
    st_error,         \* the message of st.error, "None" if none
    apc,              \* position in the script of the first tab
    lch_in,           \* the arguments <<L, a, b>> of a call of lab_to_lch
    lch_out,          \* what the call returned, <<>> before
    cache,            \* _shades_mapping_cache and _hair_category_cache, by file
    file,             \* the state of each mapping CSV on disk
    loads,            \* how many times each file was loaded so far
    role,             \* the calls each thread makes
    thread,           \* each thread's position and locals in swatch_loader
    csv,              \* the rows of the respondent's CSV, as get_csv_from_gcs returns them
    has_shade,        \* TRUE when the CSV has a column 'shade'
    shade,            \* the shade argument of load_respondent_data, "None" if not given
    df_loaded,        \* the table load_respondent_data returned, <<>> before
    lpc,              \* position in load_respondent_data
    runs,             \* which call of remap_hair_colors is running when it is called twice
    first_result,     \* the reference the first call returned, 0 before
    first_logged,     \* TRUE when the first call logged an error
    first_centers,    \* the cluster centres of the first call, <<>> if none
    df_analysis,      \* the rows of the selected region of the uploaded CSV
    text_columns,     \* the colour types whose Lab columns hold text, not numbers
    slider,           \* the grid size chosen on the slider
    selected_data_main,    \* the local of that name, <<>> while unbound
    selected_data_reflect, \* the local of that name, <<>> while unbound
    fig_reflect,      \* the rows plotted in the reflect figure, <<>> before
    images_lc,        \* the L-C gallery of the reflect tab, <<>> before
    images_lh,        \* the L-h gallery of the reflect tab, <<>> before
    csv_reflect,      \* the reflect exports made so far, in order
    st_errors,        \* the analyses for which st.error was called
    gpc               \* position in the analysis part of the script

remapVars == <<heap, color_data, image, mask, image_np, non_black_mask,
               cluster_centers, indices, pc, result, exc, logged>>

gridVars == <<df_region, grid_size, df_lch, bins, selected_lc, selected_lh, qpc>>

tabVars == <<df_data, sample_index, reruns, sample_select, clicked, samples_info, best_sample,
             selected_sample_index, selected_sample, st_error, apc>>

lchVars == <<lch_in, lch_out>>

swatchVars == <<cache, file, loads, role, thread>>

loaderVars == <<csv, has_shade, shade, df_loaded, lpc>>

twiceVars == <<runs, first_result, first_logged, first_centers>>

analysisVars == <<df_analysis, text_columns, slider, selected_data_main,
                  selected_data_reflect, fig_reflect, images_lc, images_lh,
                  csv_reflect, st_errors, gpc>>

vars == <<remapVars, gridVars, tabVars, lchVars, swatchVars, loaderVars, twiceVars, analysisVars>>

\* what the steps of remap_hair_colors leave alone, those of the grid
\* selection, and those of the first tab
notRemap == <<gridVars, tabVars, lchVars, swatchVars, loaderVars, twiceVars, analysisVars>>
notGrid == <<remapVars, tabVars, lchVars, swatchVars, loaderVars, twiceVars, analysisVars>>
notTab == <<remapVars, gridVars, lchVars, swatchVars, loaderVars, twiceVars, analysisVars>>
notAnalysis == <<remapVars, gridVars, tabVars, lchVars, swatchVars, loaderVars, twiceVars>>
notTwice == <<remapVars, gridVars, tabVars, lchVars, swatchVars, loaderVars, analysisVars>>
notLoader == <<remapVars, gridVars, tabVars, lchVars, swatchVars, twiceVars, analysisVars>>
notSwatch == <<remapVars, gridVars, tabVars, lchVars, loaderVars, twiceVars, analysisVars>>
notLch == <<remapVars, gridVars, tabVars, swatchVars, loaderVars, twiceVars, analysisVars>>

(***************************************************************************)
(* Bounds of the model.                                                    *)
(***************************************************************************)
MaxPixels == 2
MaxRows == 3
MaxGridSize == 2
MaxDistinctRows == 4
MaxSamples == 2
MaxCalls == 3
MaxCsvRows == 7

(***************************************************************************)
(* Inputs.                                                                 *)
(***************************************************************************)
Shapes == {s \in (1..MaxPixels) \X (1..MaxPixels) : s[1] * s[2] <= MaxPixels}

PixelColors == {<<0, 0, 0>>, <<100, 0, 0>>, <<255, 255, 255>>}

MaskColors == {<<0, 0, 0>>, <<255, 0, 0>>, <<255, 255, 255>>}

MaskGreys == {<<0>>, <<255>>}

Grids(s, colors) == [1..(s[1] * s[2]) -> colors]

\* The caller's image is an RGB pixel grid.
Images == UNION {[mode : {"RGB"}, size : {s}, px : Grids(s, PixelColors)] : s \in Shapes}

\* The caller's mask is an RGB pixel grid or a single-channel ("L") one.
Masks ==
    UNION {[mode : {"RGB"}, size : {s}, px : Grids(s, MaskColors)] : s \in Shapes}
    \cup UNION {[mode : {"L"}, size : {s}, px : Grids(s, MaskGreys)] : s \in Shapes}

(***************************************************************************)
(* A cluster's Lab triplet [L_i, a_i, b_i] of a row.  kind "num": numeric, *)
(* srgb is what lx.xyz_to_srgb(lx.lab_to_xyz(.)) returns for it, in tenths *)
(* (the library's floats may lie outside 0..255 and are not integers);     *)
(* kind "nan": a NaN component, the library returns NaN; kind "str": a     *)
(* non-numeric component, the library call raises.                         *)
(***************************************************************************)
LabNum(r, g, b) == [kind |-> "num", srgb |-> <<r, g, b>>]
LabNaN == [kind |-> "nan", srgb |-> <<0, 0, 0>>]
LabStr == [kind |-> "str", srgb |-> <<0, 0, 0>>]

LabBlack == LabNum(0, -4, 3)
LabRed == LabNum(2009, -35, 0)
LabWhite == LabNum(2600, 2555, 2549)

ColorRows ==
    { <<LabBlack, LabRed, LabWhite>>,
      <<LabRed, LabBlack, LabWhite>>,
      <<LabWhite, LabRed, LabBlack>>,
      <<LabRed, LabRed, LabBlack>>,
      <<LabBlack, LabRed, LabNaN>>,
      <<LabNaN, LabNaN, LabNaN>>,
      <<LabStr, LabRed, LabWhite>>,
      <<LabBlack, LabRed, LabStr>> }

\* What a cast of NaN to uint8 may produce (undefined in C; 0 on x86-64).
NaNCasts == {0, 255}

(***************************************************************************)
(* color_processing.py: lab_to_rgb                                         *)
(***************************************************************************)
\* np.clip(v, 0, 255) on a value in tenths
clip(v) == IF v < 0 THEN 0 ELSE IF v > 2550 THEN 2550 ELSE v

\* .astype(np.uint8) of a clipped value in tenths: truncation
astype_uint8(v) == v \div 10

\* lab_to_rgb raises when the library cannot compute with the triplet
lab_to_rgb_raises(lab) == lab.kind = "str"

\* lab_to_rgb(lab); u is the outcome of casting NaN to uint8
lab_to_rgb(lab, u) ==
    [ch \in 1..3 |-> IF lab.kind = "nan" THEN u
                     ELSE astype_uint8(clip(lab.srgb[ch]))]

(***************************************************************************)
(* color_processing.py: find_closest_color                                 *)
(***************************************************************************)
\* np.linalg.norm(c - p) squared: the square root is strictly increasing and
\* exact enough to keep distinct sums below 3*255^2 apart, so the argmin and
\* its ties are those of the squared distance.
norm2(c, p) ==
    (c[1] - p[1]) * (c[1] - p[1]) + (c[2] - p[2]) * (c[2] - p[2])
    + (c[3] - p[3]) * (c[3] - p[3])

\* np.argmin: the first index of a minimal entry (1-based here)
argmin(d) ==
    CHOOSE k \in DOMAIN d :
        /\ \A j \in DOMAIN d : d[k] <= d[j]
        /\ \A j \in DOMAIN d : j < k => d[j] > d[k]

find_farthest_color(pixel_rgb, centers) ==
    LET distances == [k \in DOMAIN centers |-> 0 - norm2(centers[k], pixel_rgb)]
    IN  centers[argmin(distances)]
find_closest_color(pixel_rgb, centers) ==
    LET distances == [k \in DOMAIN centers |-> norm2(centers[k], pixel_rgb)]
    IN  centers[argmin(distances)]

(***************************************************************************)
(* PIL / numpy object operations used by remap_hair_colors                 *)
(***************************************************************************)
\* Image.convert("RGB") of an image object: "L" replicates the grey value
convert_RGB(img) ==
    [mode |-> "RGB", size |-> img.size,
     px |-> [k \in DOMAIN img.px |->
                IF img.mode = "L" THEN <<img.px[k][1], img.px[k][1], img.px[k][1]>>
                ELSE img.px[k]]]

\* reference of the object image.convert("RGB") returns: always a new object
convert_same(h, ref) == ref
convert_ref(h, ref) == Len(h) + 1

\* reference of the array np.array(image) returns: a copy, never a view
np_array_ref(h, ref) == Len(h) + 1

\* h with object obj stored at reference ref (appended when ref is new)
Store(h, ref, obj) ==
    [r \in 1..(IF ref > Len(h) THEN ref ELSE Len(h)) |-> IF r = ref THEN obj ELSE h[r]]

\* (mask_np != [0, 0, 0]).all(axis=2)
non_black_everywhere(m) ==
    [k \in DOMAIN m.px |-> TRUE]
non_black(m) ==
    [k \in DOMAIN m.px |-> \A ch \in 1..3 : m.px[k][ch] # 0]

\* np.where(non_black_mask): the positions that are TRUE, in row-major order
RECURSIVE where_from(_, _)
where_from(b, k) ==
    IF k > Len(b) THEN <<>>
    ELSE IF b[k] THEN <<k>> \o where_from(b, k + 1)
    ELSE where_from(b, k + 1)

np_where(b) == where_from(b, 1)

\* original_rgb = image_np[y, x]
original_rgb_first(arr, k) == arr.px[1]
original_rgb(arr, k) == arr.px[k]

\* s without its k-th element
Without(s, k) == [j \in 1..(Len(s) - 1) |-> IF j < k THEN s[j] ELSE s[j + 1]]

(***************************************************************************)
(* remap_hair_colors(image, mask, color_data, n_clusters=3)                *)
(* The caller's image is heap[1], its mask heap[2].                        *)
(***************************************************************************)
CallerImage == 1
CallerMask == 2

RemapInit ==
    /\ \E img \in Images, msk \in Masks : heap = <<img, msk>>
    /\ color_data \in ColorRows
    /\ image = CallerImage
    /\ mask = CallerMask
    /\ image_np = 0
    /\ non_black_mask = <<>>
    /\ cluster_centers = <<>>
    /\ indices = <<>>
    /\ pc = "convert"
    /\ result = 0
    /\ exc = "None"
    /\ logged = FALSE

\* lines 87-88: image = image.convert("RGB"); mask = mask.convert("RGB")
Convert ==
    /\ pc = "convert"
    /\ LET ri == convert_ref(heap, image)
           h1 == Store(heap, ri, convert_RGB(heap[image]))
           rm == convert_ref(h1, mask)
       IN  /\ heap' = Store(h1, rm, convert_RGB(h1[mask]))
           /\ image' = ri
           /\ mask' = rm
    /\ pc' = "size"
    /\ UNCHANGED <<color_data, image_np, non_black_mask, cluster_centers,
                   indices, result, exc, logged>>

\* lines 91-93: size mismatch: logger.error, return image
SizeMismatch ==
    /\ pc = "size"
    /\ heap[image].size # heap[mask].size
    /\ logged' = TRUE
    /\ result' = image
    /\ pc' = "done"
    /\ UNCHANGED <<heap, color_data, image, mask, image_np, non_black_mask,
                   cluster_centers, indices, exc>>

\* lines 96-100: image_np, mask_np, non_black_mask
Arrays ==
    /\ pc = "size"
    /\ heap[image].size = heap[mask].size
    /\ LET ra == np_array_ref(heap, image)
       IN  /\ heap' = Store(heap, ra, heap[image])
           /\ image_np' = ra
    /\ non_black_mask' = non_black(heap[mask])
    /\ pc' = "clusters"
    /\ UNCHANGED <<color_data, image, mask, cluster_centers, indices,
                   result, exc, logged>>

\* lines 103-112 raising, then lines 139-141: logger.error, return image
ClustersRaise ==
    /\ pc = "clusters"
    /\ \E i \in 1..3 : lab_to_rgb_raises(color_data[i])
    /\ logged' = TRUE
    /\ result' = image
    /\ pc' = "done"
    /\ UNCHANGED <<heap, color_data, image, mask, image_np, non_black_mask,
                   cluster_centers, indices, exc>>

\* lines 103-120: cluster_centers and indices
Clusters ==
    /\ pc = "clusters"
    /\ \A i \in 1..3 : ~lab_to_rgb_raises(color_data[i])
    /\ \E u \in NaNCasts :
          cluster_centers' = [i \in 1..3 |-> lab_to_rgb(color_data[i], u)]
    /\ indices' = np_where(non_black_mask)
    /\ pc' = "loop"
    /\ UNCHANGED <<heap, color_data, image, mask, image_np, non_black_mask,
                   result, exc, logged>>

\* the loop body, lines 125-127, for the hair position indices[n]
Recolour(n) ==
    LET k == indices[n]
        closest_rgb == find_closest_color(original_rgb(heap[image_np], k), cluster_centers)
    IN  /\ heap' = [heap EXCEPT ![image_np].px[k] = closest_rgb]
        /\ indices' = Without(indices, n)

\* lines 124-127: one iteration of the loop, in the order of np.where
RemapPixel ==
    /\ pc = "loop"
    /\ indices # <<>>
    /\ Recolour(1)
    /\ UNCHANGED <<color_data, image, mask, image_np, non_black_mask,
                   cluster_centers, pc, result, exc, logged>>

\* an exception inside the loop (MemoryError of an allocation in
\* find_closest_color), then lines 139-141: logger.error, return image
LoopRaise ==
    /\ pc = "loop"
    /\ indices # <<>>
    /\ logged' = TRUE
    /\ result' = image
    /\ pc' = "done"
    /\ UNCHANGED <<heap, color_data, image, mask, image_np, non_black_mask,
                   cluster_centers, indices, exc>>

\* lines 134-137: remapped_image = Image.fromarray(image_np); return it
Finish ==
    /\ pc = "loop"
    /\ indices = <<>>
    /\ LET rr == Len(heap) + 1
       IN  /\ heap' = Store(heap, rr, heap[image_np])
           /\ result' = rr
    /\ pc' = "done"
    /\ UNCHANGED <<color_data, image, mask, image_np, non_black_mask,
                   cluster_centers, indices, exc, logged>>

\* the quantile selection is not running
GridIdle ==
    /\ df_region = <<>>
    /\ grid_size = 0
    /\ df_lch = <<>>
    /\ bins = <<>>
    /\ selected_lc = <<>>
    /\ selected_lh = <<>>
    /\ qpc = "idle"

\* the first tab is not running
TabIdle ==
    /\ df_data = <<>>
    /\ sample_index = 0
    /\ sample_select = 0
    /\ reruns = 0
    /\ clicked = FALSE
    /\ samples_info = <<>>
    /\ best_sample = <<>>
    /\ selected_sample_index = <<>>
    /\ selected_sample = <<>>
    /\ st_error = "None"
    /\ apc = "idle"

\* no call of lab_to_lch on its own is running
LchIdle ==
    /\ lch_in = <<>>
    /\ lch_out = <<>>

\* swatch_loader is not in use
SwatchIdle ==
    /\ cache = <<>>
    /\ file = <<>>
    /\ loads = <<>>
    /\ role = <<>>
    /\ thread = <<>>

\* load_respondent_data is not running
LoaderIdle ==
    /\ csv = <<>>
    /\ has_shade = FALSE
    /\ shade = "None"
    /\ df_loaded = <<>>
    /\ lpc = "idle"

\* remap_hair_colors is not applied a second time
TwiceIdle ==
    /\ runs = 0
    /\ first_result = 0
    /\ first_logged = FALSE
    /\ first_centers = <<>>

\* the quantile analysis of the second tab is not running
AnalysisIdle ==
    /\ df_analysis = <<>>
    /\ text_columns = {}
    /\ slider = 0
    /\ selected_data_main = <<>>
    /\ selected_data_reflect = <<>>
    /\ fig_reflect = <<>>
    /\ images_lc = <<>>
    /\ images_lh = <<>>
    /\ csv_reflect = <<>>
    /\ st_errors = {}
    /\ gpc = "idle"

Init == RemapInit /\ GridIdle /\ TabIdle /\ LchIdle /\ SwatchIdle /\ LoaderIdle /\ TwiceIdle /\ AnalysisIdle

Next ==
    \/ Convert /\ UNCHANGED notRemap
    \/ SizeMismatch /\ UNCHANGED notRemap
    \/ Arrays /\ UNCHANGED notRemap
    \/ ClustersRaise /\ UNCHANGED notRemap
    \/ Clusters /\ UNCHANGED notRemap
    \/ RemapPixel /\ UNCHANGED notRemap
    \/ LoopRaise /\ UNCHANGED notRemap
    \/ Finish /\ UNCHANGED notRemap

Spec == Init /\ [][Next]_vars

(***************************************************************************)
(* remap_hair_colors applied to the image it returned, with the same mask  *)
(* and the same colour row.                                                *)
(***************************************************************************)
TwiceInit ==
    /\ runs = 1
    /\ first_result = 0
    /\ first_logged = FALSE
    /\ first_centers = <<>>

\* line 72: the second call, remap_hair_colors(result, mask, color_data)
Again ==
    /\ pc = "done"
    /\ runs = 1
    /\ runs' = 2
    /\ first_result' = result
    /\ first_logged' = logged
    /\ first_centers' = cluster_centers
    /\ image' = result
    /\ mask' = CallerMask
    /\ image_np' = 0
    /\ non_black_mask' = <<>>
    /\ cluster_centers' = <<>>
    /\ indices' = <<>>
    /\ pc' = "convert"
    /\ result' = 0
    /\ logged' = FALSE
    /\ UNCHANGED <<heap, color_data, exc>>

\* lines 103-120 in the second call: the cast of NaN is the same as before
ClustersAgain ==
    /\ Clusters
    /\ first_centers # <<>> => cluster_centers' = first_centers

InitTwice == RemapInit /\ TwiceInit /\ GridIdle /\ TabIdle /\ LchIdle /\ SwatchIdle /\ LoaderIdle /\ AnalysisIdle

NextTwice ==
    \/ Convert /\ UNCHANGED notRemap
    \/ SizeMismatch /\ UNCHANGED notRemap
    \/ Arrays /\ UNCHANGED notRemap
    \/ ClustersRaise /\ UNCHANGED notRemap
    \/ ClustersAgain /\ UNCHANGED notRemap
    \/ RemapPixel /\ UNCHANGED notRemap
    \/ LoopRaise /\ UNCHANGED notRemap
    \/ Finish /\ UNCHANGED notRemap
    \/ Again /\ UNCHANGED <<gridVars, tabVars, lchVars, swatchVars, loaderVars, analysisVars>>

SpecTwice == InitTwice /\ [][NextTwice]_vars

(***************************************************************************)
(* The same function with the loop visiting the hair positions in any      *)
(* order (one iteration per position, as independent workers would).       *)
(***************************************************************************)
RemapPixelAnyOrder ==
    /\ pc = "loop"
    /\ \E n \in 1..Len(indices) : Recolour(n)
    /\ UNCHANGED <<color_data, image, mask, image_np, non_black_mask,
                   cluster_centers, pc, result, exc, logged>>

NextAnyOrder ==
    \/ Convert /\ UNCHANGED notRemap
    \/ SizeMismatch /\ UNCHANGED notRemap
    \/ Arrays /\ UNCHANGED notRemap
    \/ ClustersRaise /\ UNCHANGED notRemap
    \/ Clusters /\ UNCHANGED notRemap
    \/ RemapPixelAnyOrder /\ UNCHANGED notRemap
    \/ LoopRaise /\ UNCHANGED notRemap
    \/ Finish /\ UNCHANGED notRemap

SpecAnyOrder == Init /\ [][NextAnyOrder]_vars

(***************************************************************************)
(* quantile_analysis.py.  Lab rows have integer L and an (a, b) on one of  *)
(* the axes, for which chroma and hue are exact.  Quantile boundaries are  *)
(* held multiplied by grid_size, which makes the linear interpolation      *)
(* between two integers an integer.                                        *)
(***************************************************************************)
LValues == {0, 2, 4}
ABValues == {<<0, 0>>, <<2, 0>>, <<0, 2>>, <<-2, 0>>}

LabRows == [L : LValues, ab : ABValues]

RowSeqs == UNION {[1..n -> LabRows] : n \in 0..MaxRows}

\* grid_size is not validated: negative sizes and 0 are arguments too
GridSizes == (-2)..MaxGridSize

\* the bin of a row that pd.cut leaves unassigned (NaN)
NaNBin == -1

abs(x) == IF x < 0 THEN -x ELSE x

\* The value -1 stands for a negative float below the rounding unit of the
\* numbers it meets (such as -1e-20 next to 1.0), and 1 for its magnitude;
\* all other values of a, b and of angles are even or multiples of 90.
TinyNeg == -1

\* the (a, b) on which chroma and hue are modelled: on one of the axes, or
\* a tiny negative b next to a nonzero a
OnAxis(a, b) ==
    /\ a # TinyNeg
    /\ \/ b = 0
       \/ a = 0 /\ b # TinyNeg
       \/ a # 0 /\ b = TinyNeg

\* np.sqrt(a**2 + b**2) for OnAxis(a, b); no value is given elsewhere
chroma(a, b) ==
    CASE b = 0 /\ a # TinyNeg -> abs(a)
      [] a = 0 /\ b \notin {0, TinyNeg} -> abs(b)
      [] b = TinyNeg /\ a \notin {0, TinyNeg} -> abs(a)

\* np.arctan2(b, a) * 180 / np.pi for OnAxis(a, b), no value elsewhere:
\* arctan2 of a tiny negative b is a tiny negative angle for a > 0, and
\* rounds to -pi for a < 0
arctan2_deg(b, a) ==
    CASE b = 0 /\ a # TinyNeg -> (IF a < 0 THEN 180 ELSE 0)
      [] b = TinyNeg /\ a > 0 -> TinyNeg
      [] b = TinyNeg /\ a < TinyNeg -> -180
      [] a = 0 /\ b > 0 -> 90
      [] a = 0 /\ b < TinyNeg -> -90

\* h += 360 in floats: a tiny negative h is lost in the rounding of the sum
add_360(h) == IF h = TinyNeg THEN 360 ELSE h + 360

\* lab_to_lch(L, a, b) for OnAxis(a, b)
lab_to_lch(L, a, b) ==
    LET C == chroma(a, b)
        h == arctan2_deg(b, a)
    IN  <<L, C, IF h < 0 THEN add_360(h) ELSE h>>

\* Series.quantile(k/g) of the values v (linear interpolation), times g
quantile(v, k, g) ==
    LET srt == SortSeq(v, LAMBDA x, y : x < y)
        pos == k * (Len(v) - 1)
        lo  == pos \div g
        fr  == pos % g
    IN  IF fr = 0 THEN g * srt[lo + 1]
        ELSE g * srt[lo + 1] + fr * (srt[lo + 2] - srt[lo + 1])

\* Series.quantile([0/g, 1/g, ..., g/g]).values, times g
quantiles_short(v, g) == [k \in 1..g |-> quantile(v, k - 1, g)]
quantiles(v, g) == [k \in 1..(g + 1) |-> quantile(v, k - 1, g)]

\* algos.unique of a non-decreasing array
RECURSIVE unique(_)
unique(b) ==
    IF Len(b) <= 1 THEN b
    ELSE IF b[1] = b[2] THEN unique(Tail(b))
    ELSE <<b[1]>> \o unique(Tail(b))

\* bins.searchsorted(x, side="left")
searchsorted_right(b, x) == Cardinality({j \in DOMAIN b : b[j] <= x})
searchsorted(b, x) == Cardinality({j \in DOMAIN b : b[j] < x})

\* pd.cut(x, bins=b, labels=False, include_lowest=True, duplicates="drop")
\* for one value x (times g, as the boundaries are)
cut_left_closed(x, b) ==
    LET ub  == IF Len(unique(b)) < Len(b) /\ Len(b) # 2 THEN unique(b) ELSE b
        ids == searchsorted_right(ub, x)
    IN  IF ids = Len(ub) \/ ids = 0 THEN NaNBin ELSE ids - 1
cut(x, b) ==
    LET ub  == IF Len(unique(b)) < Len(b) /\ Len(b) # 2 THEN unique(b) ELSE b
        ids == IF x = ub[1] THEN 1 ELSE searchsorted(ub, x)
    IN  IF ids = Len(ub) \/ ids = 0 THEN NaNBin ELSE ids - 1

\* labels of the rows of df with column c1 = i and column c2 = j, in row order
RECURSIVE cell_from(_, _, _, _, _, _)
cell_from(df, c1, c2, i, j, p) ==
    IF p > Len(df) THEN <<>>
    ELSE IF df[p][c1] = i /\ df[p][c2] = j
         THEN <<p>> \o cell_from(df, c1, c2, i, j, p + 1)
         ELSE cell_from(df, c1, c2, i, j, p + 1)

cell_samples_first_axis(df, c1, c2, i, j) == cell_from(df, c1, c1, i, i, 1)
cell_samples(df, c1, c2, i, j) == cell_from(df, c1, c2, i, j, 1)

\* euclidean([row[x1], row[x2]], [center1, center2]) squared, times
\* (2 * g)^2, with center = (b[i] + b[i + 1]) / 2 on each axis
dist_to_center(row, x1, x2, b1, b2, i, j, g) ==
    LET d1 == 2 * g * row[x1] - (b1[i + 1] + b1[i + 2])
        d2 == 2 * g * row[x2] - (b2[j + 1] + b2[j + 2])
    IN  d1 * d1 + d2 * d2

\* Series.idxmin: the label of the first minimal entry; d maps labels to
\* values, labels lists them in row order
idxmin_last(labels, d) ==
    labels[CHOOSE n \in DOMAIN labels :
              /\ \A m \in DOMAIN labels : d[labels[n]] <= d[labels[m]]
              /\ \A m \in DOMAIN labels : m > n => d[labels[m]] > d[labels[n]]]
idxmin(labels, d) ==
    labels[CHOOSE n \in DOMAIN labels :
              /\ \A m \in DOMAIN labels : d[labels[n]] <= d[labels[m]]
              /\ \A m \in DOMAIN labels : m < n => d[labels[m]] > d[labels[n]]]

\* the loops of lines 76-92 and 97-113 from cell number c on (cells are
\* numbered L_idx * grid_size + other_idx)
RECURSIVE select_from(_, _, _, _, _, _, _, _, _)
select_from(df, c1, c2, x1, x2, b1, b2, g, c) ==
    IF c >= g * g THEN <<>>
    ELSE LET i == c \div g
             j == c % g
             members == cell_samples(df, c1, c2, i, j)
             d == [p \in DOMAIN df |-> dist_to_center(df[p], x1, x2, b1, b2, i, j, g)]
             rest == select_from(df, c1, c2, x1, x2, b1, b2, g, c + 1)
         IN  IF Len(members) > 0 THEN <<idxmin(members, d)>> \o rest ELSE rest

GridInit ==
    /\ df_region \in RowSeqs
    /\ grid_size \in GridSizes
    /\ df_lch = <<>>
    /\ bins = <<>>
    /\ selected_lc = <<>>
    /\ selected_lh = <<>>
    /\ qpc = "lch"

\* lines 31-53: df_lch, one row of L, C, h per input row
ToLch ==
    /\ qpc = "lch"
    /\ df_lch' = [p \in DOMAIN df_region |->
                    LET lch == lab_to_lch(df_region[p].L, df_region[p].ab[1],
                                          df_region[p].ab[2])
                    IN  [L |-> lch[1], C |-> lch[2], h |-> lch[3]]]
    /\ qpc' = "quantiles"
    /\ UNCHANGED <<df_region, grid_size, bins, selected_lc, selected_lh>>

\* line 59 with grid_size 0: i/grid_size raises ZeroDivisionError
QuantilesZeroDivision ==
    /\ qpc = "quantiles"
    /\ grid_size = 0
    /\ qpc' = "ZeroDivisionError"
    /\ UNCHANGED <<df_region, grid_size, df_lch, bins, selected_lc, selected_lh>>

\* line 61 on an empty table: df_lch has no column 'L', KeyError
QuantilesRaise_returns ==
    /\ qpc = "quantiles"
    /\ grid_size # 0
    /\ df_lch = <<>>
    /\ qpc' = "returned"
    /\ UNCHANGED <<df_region, grid_size, df_lch, bins, selected_lc, selected_lh>>
QuantilesRaise ==
    /\ qpc = "quantiles"
    /\ grid_size # 0
    /\ df_lch = <<>>
    /\ qpc' = "KeyError"
    /\ UNCHANGED <<df_region, grid_size, df_lch, bins, selected_lc, selected_lh>>

\* lines 59-66 with a negative grid_size: range(grid_size + 1) is empty, the
\* boundary arrays have no entry, and pd.cut(..., include_lowest=True)
\* raises IndexError on bins[0]
QuantilesIndexError ==
    /\ qpc = "quantiles"
    /\ grid_size < 0
    /\ df_lch # <<>>
    /\ qpc' = "IndexError"
    /\ UNCHANGED <<df_region, grid_size, df_lch, bins, selected_lc, selected_lh>>

\* lines 59-71: the boundaries and the bin columns
QuantilesAndCut ==
    /\ qpc = "quantiles"
    /\ grid_size > 0
    /\ df_lch # <<>>
    /\ LET g  == grid_size
           Lb == quantiles([p \in DOMAIN df_lch |-> df_lch[p].L], g)
           Cb == quantiles([p \in DOMAIN df_lch |-> df_lch[p].C], g)
           hb == quantiles([p \in DOMAIN df_lch |-> df_lch[p].h], g)
       IN  /\ bins' = [L |-> Lb, C |-> Cb, h |-> hb]
           /\ df_lch' = [p \in DOMAIN df_lch |->
                          [L |-> df_lch[p].L, C |-> df_lch[p].C, h |-> df_lch[p].h,
                           L_bin |-> cut(g * df_lch[p].L, Lb),
                           C_bin |-> cut(g * df_lch[p].C, Cb),
                           L_bin_h |-> cut(g * df_lch[p].L, Lb),
                           h_bin |-> cut(g * df_lch[p].h, hb)]]
    /\ qpc' = "select_lc"
    /\ UNCHANGED <<df_region, grid_size, selected_lc, selected_lh>>

\* lines 74-92: the representative of each L-C cell
SelectLC ==
    /\ qpc = "select_lc"
    /\ selected_lc' = select_from(df_lch, "L_bin", "C_bin", "L", "C",
                                  bins.L, bins.C, grid_size, 0)
    /\ qpc' = "select_lh"
    /\ UNCHANGED <<df_region, grid_size, df_lch, bins, selected_lh>>

\* lines 95-129: the representative of each L-h cell, and the return
SelectLH ==
    /\ qpc = "select_lh"
    /\ selected_lh' = select_from(df_lch, "L_bin_h", "h_bin", "L", "h",
                                  bins.L, bins.h, grid_size, 0)
    /\ qpc' = "returned"
    /\ UNCHANGED <<df_region, grid_size, df_lch, bins, selected_lc>>

\* remap_hair_colors is not running
RemapIdle ==
    /\ heap = <<>>
    /\ color_data = <<>>
    /\ image = 0
    /\ mask = 0
    /\ image_np = 0
    /\ non_black_mask = <<>>
    /\ cluster_centers = <<>>
    /\ indices = <<>>
    /\ pc = "idle"
    /\ result = 0
    /\ exc = "None"
    /\ logged = FALSE

InitGrid == GridInit /\ RemapIdle /\ TabIdle /\ LchIdle /\ SwatchIdle /\ LoaderIdle /\ TwiceIdle /\ AnalysisIdle

NextGrid ==
    \/ ToLch /\ UNCHANGED notGrid
    \/ QuantilesZeroDivision /\ UNCHANGED notGrid
    \/ QuantilesRaise /\ UNCHANGED notGrid
    \/ QuantilesIndexError /\ UNCHANGED notGrid
    \/ QuantilesAndCut /\ UNCHANGED notGrid
    \/ SelectLC /\ UNCHANGED notGrid
    \/ SelectLH /\ UNCHANGED notGrid

SpecGrid == InitGrid /\ [][NextGrid]_vars

(***************************************************************************)
(* lab_to_lch called on its own, on (a, b) for which the model has exact   *)
(* values.                                                                 *)
(***************************************************************************)
LchL == {0, 2, 4, 50, 100}
LchA == {-4, -2, 0, 2, 4}
LchB == {-4, -2, TinyNeg, 0, 2, 4}

LchInit ==
    /\ lch_in \in {i \in LchL \X LchA \X LchB : OnAxis(i[2], i[3])}
    /\ lch_out = <<>>

\* lines 7-13
LabToLch ==
    /\ lch_out = <<>>
    /\ lch_out' = lab_to_lch(lch_in[1], lch_in[2], lch_in[3])
    /\ UNCHANGED lch_in

InitLch == LchInit /\ RemapIdle /\ GridIdle /\ TabIdle /\ SwatchIdle /\ LoaderIdle /\ TwiceIdle /\ AnalysisIdle

NextLch == LabToLch /\ UNCHANGED notLch

SpecLch == InitLch /\ [][NextLch]_vars

(***************************************************************************)
(* swatch_loader.py: the two module-level caches and the functions that    *)
(* fill, read and reset them.  A cache holds "None", "empty" (an empty     *)
(* DataFrame) or "table".  Each statement that reads or writes a global is *)
(* a step of its own, which is where threads of different Streamlit        *)
(* sessions interleave.  A file is ok, missing, unreadable (read_csv fails *)
(* with both separators) or no_column (it is read, and its table has not   *)
(* the columns the code names).                                            *)
(***************************************************************************)
Files == {"shades", "category"}
FileStates == {"ok", "missing", "unreadable", "no_column"}
Threads == {1, 2}
LoadCalls == {"load_shades_mapping", "load_hair_category",
              "get_swatch_name_for_shade_and_category", "get_category_for_respondent"}
Calls == LoadCalls \cup {"reload_mappings"}

\* the file a call loads first
file_of(k) ==
    IF k \in {"load_hair_category", "get_category_for_respondent"}
    THEN "category" ELSE "shades"

ThreadStart ==
    [pc |-> "idle", call |-> "none", cur |-> "shades",
     ret |-> [f \in Files |-> "unset"], mark |-> [f \in Files |-> 0],
     ncalls |-> 0, reloads |-> 0]

\* module import, lines 9-10: both caches are None
SwatchInit(r) ==
    /\ cache = [f \in Files |-> "None"]
    /\ file \in [Files -> FileStates]
    /\ loads = [f \in Files |-> 0]
    /\ role = r
    /\ thread = [t \in Threads |-> ThreadStart]

\* thread t starts a call of k; mark keeps the load counts at that moment
\* and ncalls, reloads count the thread's calls
Call(t) ==
    /\ thread[t].pc \in {"idle", "done"}
    /\ thread[t].ncalls < MaxCalls
    /\ \E k \in role[t] :
          thread' = [thread EXCEPT ![t] =
              [pc |-> IF k = "reload_mappings" THEN "reset_shades" ELSE "check",
               call |-> k, cur |-> file_of(k),
               ret |-> [f \in Files |-> "unset"], mark |-> loads,
               ncalls |-> thread[t].ncalls + 1,
               reloads |-> thread[t].reloads + (IF k = "reload_mappings" THEN 1 ELSE 0)]]
    /\ UNCHANGED <<cache, file, loads, role>>

\* line 343: _shades_mapping_cache = None
ResetShades(t) ==
    /\ thread[t].pc = "reset_shades"
    /\ cache' = [cache EXCEPT !["shades"] = "None"]
    /\ thread' = [thread EXCEPT ![t].pc = "reset_category"]
    /\ UNCHANGED <<file, loads, role>>

\* line 344: _hair_category_cache = None, then line 346 calls load_shades_mapping
ResetCategory(t) ==
    /\ thread[t].pc = "reset_category"
    /\ cache' = [cache EXCEPT !["category"] = "None"]
    /\ thread' = [thread EXCEPT ![t].pc = "check", ![t].cur = "shades"]
    /\ UNCHANGED <<file, loads, role>>

\* lines 21, 59: if <cache> is None
Check_always_loads(t) ==
    /\ thread[t].pc = "check"
    /\ thread' = [thread EXCEPT ![t].pc = "load"]
    /\ UNCHANGED <<cache, file, loads, role>>
Check(t) ==
    /\ thread[t].pc = "check"
    /\ thread' = [thread EXCEPT ![t].pc =
                     IF cache[thread[t].cur] = "None" THEN "load" ELSE "return"]
    /\ UNCHANGED <<cache, file, loads, role>>

\* lines 22-32 (60-72): the file is looked for and read.  A missing file
\* stores an empty DataFrame (line 25, 63) and goes to the return of line
\* 26 (64); a read that fails with both separators raises and stores
\* nothing; a read that succeeds stores the table (line 30 or 32, 68 or 71)
Load(t) ==
    /\ thread[t].pc = "load"
    /\ LET f == thread[t].cur
       IN  /\ loads' = [loads EXCEPT ![f] = loads[f] + 1]
           /\ cache' = CASE file[f] = "missing" -> [cache EXCEPT ![f] = "empty"]
                         [] file[f] = "unreadable" -> cache
                         [] file[f] \in {"ok", "no_column"} -> [cache EXCEPT ![f] = "table"]
           /\ thread' = [thread EXCEPT ![t].pc =
                            CASE file[f] = "missing" -> "return"
                              [] file[f] = "unreadable" -> "handler"
                              [] file[f] \in {"ok", "no_column"} -> "log_len"]
    /\ UNCHANGED <<file, role>>

\* line 34 (74): len(<cache>) reads the global again, TypeError on None
LogLen(t) ==
    /\ thread[t].pc = "log_len"
    /\ thread' = [thread EXCEPT ![t].pc =
                     IF cache[thread[t].cur] = "None" THEN "handler" ELSE "log_empty"]
    /\ UNCHANGED <<cache, file, loads, role>>

\* line 37 (77): if not <cache>.empty, AttributeError on None; an empty
\* DataFrame skips the sample entries
LogEmpty(t) ==
    /\ thread[t].pc = "log_empty"
    /\ LET f == thread[t].cur
       IN  thread' = [thread EXCEPT ![t].pc =
                        CASE cache[f] = "None" -> "handler"
                          [] cache[f] = "empty" -> "return"
                          [] cache[f] = "table" ->
                               IF f = "category" THEN "log_columns" ELSE "log_rows"]
    /\ UNCHANGED <<cache, file, loads, role>>

\* line 79: <cache>.columns.tolist(), of the category file only
LogColumns(t) ==
    /\ thread[t].pc = "log_columns"
    /\ thread' = [thread EXCEPT ![t].pc =
                     IF cache[thread[t].cur] = "None" THEN "handler" ELSE "log_rows"]
    /\ UNCHANGED <<cache, file, loads, role>>

\* lines 39-41 (80-97): <cache>.head(3).iterrows(), AttributeError on None;
\* row['Name_gcp_with_numberbyL'] of line 40 raises KeyError on a shades
\* table without that column, the category rows are read with 'in'
LogRows(t) ==
    /\ thread[t].pc = "log_rows"
    /\ LET f == thread[t].cur
       IN  thread' = [thread EXCEPT ![t].pc =
                        CASE cache[f] = "None" -> "handler"
                          [] cache[f] = "empty" -> "return"
                          [] cache[f] = "table" ->
                               IF f = "shades" /\ file[f] = "no_column"
                               THEN "handler" ELSE "return"]
    /\ UNCHANGED <<cache, file, loads, role>>

\* lines 43-45 (99-101): the handler stores an empty DataFrame
Handler(t) ==
    /\ thread[t].pc = "handler"
    /\ cache' = [cache EXCEPT ![thread[t].cur] = "empty"]
    /\ thread' = [thread EXCEPT ![t].pc = "return"]
    /\ UNCHANGED <<file, loads, role>>

\* lines 26, 47 (64, 103): return <cache>, the global as it is now; then
\* the caller goes on
Return(t) ==
    /\ thread[t].pc = "return"
    /\ LET f == thread[t].cur
           k == thread[t].call
       IN  thread' = [thread EXCEPT
               ![t].ret[f] = cache[f],
               ![t].cur = IF k = "reload_mappings" THEN "category" ELSE f,
               ![t].pc = IF k = "reload_mappings"
                         THEN (IF f = "shades" THEN "check" ELSE "len")
                         ELSE IF k \in {"get_swatch_name_for_shade_and_category",
                                        "get_category_for_respondent"}
                         THEN "empty" ELSE "done"]
    /\ UNCHANGED <<cache, file, loads, role>>

\* lines 117, 183: if <returned table>.empty, an AttributeError on None
EmptyTest(t) ==
    /\ thread[t].pc = "empty"
    /\ thread' = [thread EXCEPT ![t].pc =
                     IF thread[t].ret[thread[t].cur] = "None"
                     THEN "AttributeError" ELSE "done"]
    /\ UNCHANGED <<cache, file, loads, role>>

\* line 349: return len(shades_df), len(category_df), a TypeError on None
LenTables(t) ==
    /\ thread[t].pc = "len"
    /\ thread' = [thread EXCEPT ![t].pc =
                     IF "None" \in {thread[t].ret[f] : f \in Files}
                     THEN "TypeError" ELSE "done"]
    /\ UNCHANGED <<cache, file, loads, role>>

NextSwatch ==
    \/ \E t \in Threads : Call(t) /\ UNCHANGED notSwatch
    \/ \E t \in Threads : ResetShades(t) /\ UNCHANGED notSwatch
    \/ \E t \in Threads : ResetCategory(t) /\ UNCHANGED notSwatch
    \/ \E t \in Threads : Check(t) /\ UNCHANGED notSwatch
    \/ \E t \in Threads : Load(t) /\ UNCHANGED notSwatch
    \/ \E t \in Threads : LogLen(t) /\ UNCHANGED notSwatch
    \/ \E t \in Threads : LogEmpty(t) /\ UNCHANGED notSwatch
    \/ \E t \in Threads : LogColumns(t) /\ UNCHANGED notSwatch
    \/ \E t \in Threads : LogRows(t) /\ UNCHANGED notSwatch
    \/ \E t \in Threads : Handler(t) /\ UNCHANGED notSwatch
    \/ \E t \in Threads : Return(t) /\ UNCHANGED notSwatch
    \/ \E t \in Threads : EmptyTest(t) /\ UNCHANGED notSwatch
    \/ \E t \in Threads : LenTables(t) /\ UNCHANGED notSwatch

\* one thread makes every call, one after the other
SequentialRole == [t \in Threads |-> IF t = 1 THEN Calls ELSE {}]

InitSwatch == SwatchInit(SequentialRole) /\ RemapIdle /\ GridIdle /\ TabIdle /\ LchIdle /\ LoaderIdle /\ TwiceIdle /\ AnalysisIdle

SpecSwatch == InitSwatch /\ [][NextSwatch]_vars

\* thread 1 reloads while thread 2 loads and looks up
RaceRole == [t \in Threads |-> IF t = 1 THEN {"reload_mappings"} ELSE LoadCalls]

InitSwatchRace == SwatchInit(RaceRole) /\ RemapIdle /\ GridIdle /\ TabIdle /\ LchIdle /\ LoaderIdle /\ TwiceIdle /\ AnalysisIdle

SpecSwatchRace == InitSwatchRace /\ [][NextSwatch]_vars

(***************************************************************************)
(* load_respondent_data (data_loader.py).  A row of the CSV carries its    *)
(* label, which is its position in the file, and its shade.                *)
(***************************************************************************)
Shades == {"A", "B"}

\* the CSVs of up to MaxCsvRows rows; the empty one is also what
\* get_csv_from_gcs returns for a missing or unreadable file
Csvs ==
    UNION {{[p \in 1..n |-> [index |-> p - 1, shade |-> s[p]]] : s \in [1..n -> Shades]} :
           n \in 0..MaxCsvRows}

\* df.head(5)
HeadRows == 5

\* df.head(n): the first n rows, all rows if there are fewer
head_all(d, n) == d
head(d, n) == IF Len(d) <= n THEN d ELSE SubSeq(d, 1, n)

\* df[df['shade'] == shade]: the rows of that shade, with their labels
filter_shade(d, s) == SelectSeq(d, LAMBDA row : row.shade = s)

LoaderInit ==
    /\ csv \in Csvs
    /\ has_shade \in BOOLEAN
    /\ shade \in Shades \cup {"C", "None"}
    /\ df_loaded = <<>>
    /\ lpc = "call"

\* lines 94-99: the CSV is empty: it is returned as it is
LoadEmpty ==
    /\ lpc = "call"
    /\ csv = <<>>
    /\ df_loaded' = csv
    /\ lpc' = "returned"
    /\ UNCHANGED <<csv, has_shade, shade>>

\* lines 102-103 raising KeyError (no column 'shade'), then lines 113-115:
\* an empty DataFrame is returned
LoadRaise ==
    /\ lpc = "call"
    /\ csv # <<>>
    /\ shade # "None" /\ ~has_shade
    /\ df_loaded' = <<>>
    /\ lpc' = "returned"
    /\ UNCHANGED <<csv, has_shade, shade>>

\* lines 101-111: the filter on the shade, if one is given, and head(5)
LoadRows ==
    /\ lpc = "call"
    /\ csv # <<>>
    /\ shade = "None" \/ has_shade
    /\ df_loaded' = head(IF shade # "None" THEN filter_shade(csv, shade) ELSE csv,
                         HeadRows)
    /\ lpc' = "returned"
    /\ UNCHANGED <<csv, has_shade, shade>>

InitLoader == LoaderInit /\ RemapIdle /\ GridIdle /\ TabIdle /\ LchIdle /\ SwatchIdle /\ TwiceIdle /\ AnalysisIdle

NextLoader ==
    \/ LoadEmpty /\ UNCHANGED notLoader
    \/ LoadRaise /\ UNCHANGED notLoader
    \/ LoadRows /\ UNCHANGED notLoader

SpecLoader == InitLoader /\ [][NextLoader]_vars

(***************************************************************************)
(* The same call on rows whose L values are pairwise distinct.             *)
(***************************************************************************)
DistinctLValues == {0, 1, 2, 4, 7}
DistinctABValues == {<<0, 0>>, <<0, 2>>}

DistinctRowSeqs ==
    UNION {{r \in [1..n -> [L : DistinctLValues, ab : DistinctABValues]] :
               \A p, q \in 1..n : p # q => r[p].L # r[q].L} :
           n \in 0..MaxDistinctRows}

GridInitDistinct ==
    /\ df_region \in DistinctRowSeqs
    /\ grid_size \in GridSizes
    /\ df_lch = <<>>
    /\ bins = <<>>
    /\ selected_lc = <<>>
    /\ selected_lh = <<>>
    /\ qpc = "lch"

InitGridDistinct == GridInitDistinct /\ RemapIdle /\ TabIdle /\ LchIdle /\ SwatchIdle /\ LoaderIdle /\ TwiceIdle /\ AnalysisIdle

SpecGridDistinct == InitGridDistinct /\ [][NextGrid]_vars

(***************************************************************************)
(* process_hair_color_remapping_with_sample (color_processing.py) and the  *)
(* sample selection of the first tab (app.py).  A row of df carries its    *)
(* label ('index' of iterrows), its three proportions (in thirds of a      *)
(* percent: 300 is 100%, 100 is 100/3 %) and its three Lab clusters.  A reference that is None is 0; a local that is     *)
(* None is <<>>, and <<v>> when it holds v.                                *)
(***************************************************************************)
\* df.empty
df_empty_never(d) == FALSE
df_empty(d) == Len(d) = 0

\* df.iloc[i]
iloc_first(d, i) == d[1]
iloc(d, i) == d[i + 1]

\* sum(abs(prop - 100/3) for prop in proportions), times 3; proportions are
\* held in thirds of a percent, in which 100/3 is the integer 100
balance_score_signed(proportions) ==
    (proportions[1] - 100) + (proportions[2] - 100) + (proportions[3] - 100)
balance_score(proportions) ==
    abs(proportions[1] - 100) + abs(proportions[2] - 100)
    + abs(proportions[3] - 100)

\* get_sample_info(df): one record per row, in row order
get_sample_info(d) ==
    [p \in DOMAIN d |->
        [index |-> d[p].index,
         proportions |-> d[p].proportions,
         balance_score |-> balance_score(d[p].proportions)]]

\* min(samples_info, key=lambda x: x['balance_score']): the first of the
\* entries of least score
min_balance_score_last(info) ==
    info[CHOOSE n \in DOMAIN info :
            /\ \A m \in DOMAIN info : info[n].balance_score <= info[m].balance_score
            /\ \A m \in DOMAIN info :
                  m > n => info[m].balance_score > info[n].balance_score]
min_balance_score(info) ==
    info[CHOOSE n \in DOMAIN info :
            /\ \A m \in DOMAIN info : info[n].balance_score <= info[m].balance_score
            /\ \A m \in DOMAIN info :
                  m < n => info[m].balance_score > info[n].balance_score]

\* 1 x 1 and 2 x 1 images and masks for the calls with a chosen sample
SampleShapes == {<<1, 1>>, <<2, 1>>}

SampleImages ==
    UNION {[mode : {"RGB"}, size : {s}, px : Grids(s, PixelColors)] : s \in SampleShapes}

SampleMasks ==
    UNION {[mode : {"RGB"}, size : {s}, px : Grids(s, MaskColors)] : s \in SampleShapes}

SampleColorRows ==
    { <<LabBlack, LabRed, LabWhite>>,
      <<LabRed, LabBlack, LabWhite>>,
      <<LabStr, LabRed, LabWhite>> }

\* DataFrames of up to MaxSamples rows labelled 0, 1, ...
SampleFrames ==
    UNION {{[p \in 1..n |-> [index |-> p - 1, proportions |-> <<102, 99, 99>>,
                             colors |-> c[p]]] : c \in [1..n -> SampleColorRows]} :
           n \in 0..MaxSamples}

\* the first tab's script is not running; df and sample_index are the
\* arguments of process_hair_color_remapping_with_sample
SampleInit ==
    /\ \E img \in SampleImages, msk \in SampleMasks : heap = <<img, msk>>
    /\ image \in {CallerImage, 0}
    /\ mask \in {CallerMask, 0}
    /\ df_data \in SampleFrames
    /\ sample_index \in -1..(MaxSamples + 1)
    /\ color_data = <<>>
    /\ image_np = 0
    /\ non_black_mask = <<>>
    /\ cluster_centers = <<>>
    /\ indices = <<>>
    /\ pc = "select"
    /\ result = 0
    /\ exc = "None"
    /\ logged = FALSE
    /\ sample_select = 0
    /\ reruns = 0
    /\ clicked = FALSE
    /\ samples_info = <<>>
    /\ best_sample = <<>>
    /\ selected_sample_index = <<>>
    /\ selected_sample = <<>>
    /\ st_error = "None"
    /\ apc = "idle"

\* lines 156-158: missing data: logger.warning, return image
SampleMissing ==
    /\ pc = "select"
    /\ df_empty(df_data) \/ image = 0 \/ mask = 0
    /\ result' = image
    /\ pc' = "done"
    /\ UNCHANGED <<heap, color_data, image, mask, image_np, non_black_mask,
                   cluster_centers, indices, exc, logged>>

\* lines 160-162: index out of range: logger.error, return image
SampleInvalid ==
    /\ pc = "select"
    /\ ~(df_empty(df_data) \/ image = 0 \/ mask = 0)
    /\ sample_index >= Len(df_data) \/ sample_index < 0
    /\ logged' = TRUE
    /\ result' = image
    /\ pc' = "done"
    /\ UNCHANGED <<heap, color_data, image, mask, image_np, non_black_mask,
                   cluster_centers, indices, exc>>

\* lines 165-174: selected_sample = df.iloc[sample_index], and the call
\* remap_hair_colors(image, mask, selected_sample), whose result is returned
SampleSelect ==
    /\ pc = "select"
    /\ ~(df_empty(df_data) \/ image = 0 \/ mask = 0)
    /\ ~(sample_index >= Len(df_data) \/ sample_index < 0)
    /\ color_data' = iloc(df_data, sample_index).colors
    /\ pc' = "convert"
    /\ UNCHANGED <<heap, image, mask, image_np, non_black_mask,
                   cluster_centers, indices, result, exc, logged>>

InitSample == SampleInit /\ GridIdle /\ LchIdle /\ SwatchIdle /\ LoaderIdle /\ TwiceIdle /\ AnalysisIdle

NextSample ==
    \/ SampleMissing /\ UNCHANGED notRemap
    \/ SampleInvalid /\ UNCHANGED notRemap
    \/ SampleSelect /\ UNCHANGED notRemap
    \/ Convert /\ UNCHANGED notRemap
    \/ SizeMismatch /\ UNCHANGED notRemap
    \/ Arrays /\ UNCHANGED notRemap
    \/ ClustersRaise /\ UNCHANGED notRemap
    \/ Clusters /\ UNCHANGED notRemap
    \/ RemapPixel /\ UNCHANGED notRemap
    \/ LoopRaise /\ UNCHANGED notRemap
    \/ Finish /\ UNCHANGED notRemap

SpecSample == InitSample /\ [][NextSample]_vars

(***************************************************************************)
(* The script of the first tab, app.py lines 192-256, from the loaded df   *)
(* to the selected sample.  A click on 'Use Best Balanced' starts the run; *)
(* st.rerun() starts the script over with the widgets' state kept.         *)
(***************************************************************************)
\* (33, 33, 34), (34, 33, 33), (50, 30, 20), (20, 30, 50), (100, 0, 0),
\* (100/3, 100/3, 100/3) and (0, 0, 0) percent
Proportions ==
    {<<99, 99, 102>>, <<102, 99, 99>>, <<150, 90, 60>>, <<60, 90, 150>>,
     <<300, 0, 0>>, <<100, 100, 100>>, <<0, 0, 0>>}

Labels == 0..MaxSamples

\* df of load_respondent_data: up to MaxSamples rows of one shade, labelled
\* by their increasing positions in the file
TabFrames ==
    UNION {{d \in [1..n -> [index : Labels, proportions : Proportions,
                            colors : {<<LabBlack, LabRed, LabWhite>>}]] :
               \A p, q \in 1..n : p < q => d[p].index < d[q].index} :
           n \in 0..MaxSamples}

\* lines 196-198: df is loaded; the selectbox holds the user's option, and
\* the button can have been clicked if the run before showed it
TabInit ==
    /\ df_data \in TabFrames
    /\ sample_select \in 0..(IF Len(df_data) = 0 THEN 0 ELSE Len(df_data) - 1)
    /\ clicked \in (IF Len(df_data) = 0 THEN {FALSE} ELSE BOOLEAN)
    /\ sample_index = 0
    /\ reruns = 0
    /\ samples_info = <<>>
    /\ best_sample = <<>>
    /\ selected_sample_index = <<>>
    /\ selected_sample = <<>>
    /\ st_error = "None"
    /\ apc = "loaded"

\* lines 200, 401-402: no rows: st.error, nothing is selected
NoData ==
    /\ apc = "loaded"
    /\ df_empty(df_data)
    /\ st_error' = "No data found"
    /\ apc' = "done"
    /\ UNCHANGED <<df_data, sample_index, reruns, sample_select, clicked, samples_info,
                   best_sample, selected_sample_index, selected_sample>>

\* lines 200-202: samples_info = get_sample_info(df)
GetSampleInfo ==
    /\ apc = "loaded"
    /\ ~df_empty(df_data)
    /\ samples_info' = get_sample_info(df_data)
    /\ apc' = "selectbox"
    /\ UNCHANGED <<df_data, sample_index, reruns, sample_select, clicked, best_sample,
                   selected_sample_index, selected_sample, st_error>>

\* lines 239-245: the selectbox over range(len(samples_info)) returns the
\* chosen option, None when there is no option
Selectbox ==
    /\ apc = "selectbox"
    /\ selected_sample_index' =
          IF sample_select \in 0..(Len(samples_info) - 1) THEN <<sample_select>> ELSE <<>>
    /\ apc' = "button"
    /\ UNCHANGED <<df_data, sample_index, reruns, sample_select, clicked, samples_info,
                   best_sample, selected_sample, st_error>>

\* lines 248-251: the button was clicked: best_sample and its 'index'
BestBalanced ==
    /\ apc = "button"
    /\ clicked
    /\ samples_info # <<>>
    /\ best_sample' = <<min_balance_score(samples_info)>>
    /\ selected_sample_index' = <<min_balance_score(samples_info).index>>
    /\ apc' = "rerun"
    /\ UNCHANGED <<df_data, sample_index, reruns, sample_select, clicked, samples_info,
                   selected_sample, st_error>>

\* line 252: st.rerun(): the script starts over, its locals are lost, the
\* selectbox keeps its option and the button is no longer clicked
Rerun ==
    /\ apc = "rerun"
    /\ clicked' = FALSE
    /\ samples_info' = <<>>
    /\ best_sample' = <<>>
    /\ selected_sample_index' = <<>>
    /\ apc' = "loaded"
    /\ reruns' = reruns + 1
    /\ UNCHANGED <<df_data, sample_index, sample_select, selected_sample, st_error>>

\* lines 255-256: selected_sample = samples_info[selected_sample_index]
Details ==
    /\ apc = "button"
    /\ ~clicked
    /\ selected_sample_index # <<>>
    /\ selected_sample' = <<samples_info[selected_sample_index[1] + 1]>>
    /\ apc' = "done"
    /\ UNCHANGED <<df_data, sample_index, reruns, sample_select, clicked, samples_info,
                   best_sample, selected_sample_index, st_error>>

InitTab == TabInit /\ RemapIdle /\ GridIdle /\ LchIdle /\ SwatchIdle /\ LoaderIdle /\ TwiceIdle /\ AnalysisIdle

NextTab ==
    \/ NoData /\ UNCHANGED notTab
    \/ GetSampleInfo /\ UNCHANGED notTab
    \/ Selectbox /\ UNCHANGED notTab
    \/ BestBalanced /\ UNCHANGED notTab
    \/ Rerun /\ UNCHANGED notTab
    \/ Details /\ UNCHANGED notTab

SpecTab == InitTab /\ [][NextTab]_vars

(***************************************************************************)
(* The quantile analysis of the second tab, app.py lines 499-769: the main *)
(* colour analysis and then the reflect colour analysis of the rows of the *)
(* selected region, in one run of the script.  A row carries its main and  *)
(* its reflect colour; its label stands for RESP_FINAL, VIDEOS and         *)
(* XSHADE_S.  The images of all rows load.                                 *)
(***************************************************************************)
ColorTypes == {"main", "reflect"}

AnalysisColors ==
    {[L |-> 0, ab |-> <<0, 0>>], [L |-> 2, ab |-> <<2, 0>>], [L |-> 4, ab |-> <<0, 2>>]}

AnalysisRows == [main : AnalysisColors, reflect : AnalysisColors]

\* df_region of line 499, with len(df_region) > 0 (line 501)
AnalysisTables == UNION {[1..n -> AnalysisRows] : n \in 1..MaxRows}

\* the slider of lines 489-496 has min_value 2
Sliders == 2..MaxGridSize

\* quantile_analysis.py lines 31-53 for the columns of one colour type
lch_table(df, color_type) ==
    [p \in DOMAIN df |->
        LET lch == lab_to_lch(df[p][color_type].L, df[p][color_type].ab[1],
                              df[p][color_type].ab[2])
        IN  [L |-> lch[1], C |-> lch[2], h |-> lch[3]]]

\* the rows of the table t with the given labels, each with its label
samples_table(t, labels) ==
    [n \in DOMAIN labels |->
        [label |-> labels[n], L |-> t[labels[n]].L, C |-> t[labels[n]].C,
         h |-> t[labels[n]].h, L_bin |-> t[labels[n]].L_bin,
         C_bin |-> t[labels[n]].C_bin, L_bin_h |-> t[labels[n]].L_bin_h,
         h_bin |-> t[labels[n]].h_bin]]

\* quantile_analysis.py lines 15-129 on a table that is not empty, with
\* grid_size g >= 1
select_representative_samples_quantile(df, color_type, g) ==
    LET t  == lch_table(df, color_type)
        Lb == quantiles([p \in DOMAIN t |-> t[p].L], g)
        Cb == quantiles([p \in DOMAIN t |-> t[p].C], g)
        hb == quantiles([p \in DOMAIN t |-> t[p].h], g)
        tb == [p \in DOMAIN t |->
                 [L |-> t[p].L, C |-> t[p].C, h |-> t[p].h,
                  L_bin |-> cut(g * t[p].L, Lb),
                  C_bin |-> cut(g * t[p].C, Cb),
                  L_bin_h |-> cut(g * t[p].L, Lb),
                  h_bin |-> cut(g * t[p].h, hb)]]
    IN  [lc_samples |-> samples_table(tb, select_from(tb, "L_bin", "C_bin", "L", "C",
                                                      Lb, Cb, g, 0)),
         lh_samples |-> samples_table(tb, select_from(tb, "L_bin_h", "h_bin", "L", "h",
                                                      Lb, hb, g, 0))]

\* quantile_viz.py lines 226-233: int() of a bin that is NaN raises
\* ValueError
load_images_for_gallery_raises(df_samples) ==
    \E n \in DOMAIN df_samples :
        NaNBin \in {df_samples[n].L_bin, df_samples[n].C_bin,
                    df_samples[n].L_bin_h, df_samples[n].h_bin}

\* quantile_viz.py lines 196-238: one entry per row whose image loads
load_images_for_gallery(df_samples) ==
    [n \in DOMAIN df_samples |->
        [respondent_id |-> df_samples[n].label, L |-> df_samples[n].L,
         C |-> df_samples[n].C, h |-> df_samples[n].h,
         L_bin |-> df_samples[n].L_bin, C_bin |-> df_samples[n].C_bin,
         L_bin_h |-> df_samples[n].L_bin_h, h_bin |-> df_samples[n].h_bin]]

\* df_samples[[...]] of the export lines: a table built from no rows has no
\* columns, and the column selection raises KeyError
export_raises(df_samples) == df_samples = <<>>

\* lines 748 and 758: the exported columns of each row
to_csv(df_samples, bin1, bin2) ==
    [n \in DOMAIN df_samples |->
        <<df_samples[n].label, df_samples[n].L, df_samples[n].C, df_samples[n].h,
          df_samples[n][bin1], df_samples[n][bin2]>>]

AnalysisInit ==
    /\ df_analysis \in AnalysisTables
    /\ text_columns \in SUBSET ColorTypes
    /\ slider \in Sliders
    /\ selected_data_main = <<>>
    /\ selected_data_reflect = <<>>
    /\ fig_reflect = <<>>
    /\ images_lc = <<>>
    /\ images_lh = <<>>
    /\ csv_reflect = <<>>
    /\ st_errors = {}
    /\ gpc = "main"

\* lines 508-637: the try block of the main colour analysis.  lab_to_lch on
\* text raises TypeError before selected_data_main is assigned; the
\* galleries and the exports of the main tab can raise after it is.
MainAnalysis ==
    /\ gpc = "main"
    /\ IF "main" \in text_columns
       THEN /\ st_errors' = st_errors \cup {"main"}
            /\ UNCHANGED selected_data_main
       ELSE LET d == select_representative_samples_quantile(df_analysis, "main", slider)
            IN  /\ selected_data_main' = <<d>>
                /\ st_errors' =
                     IF \/ load_images_for_gallery_raises(d.lc_samples)
                        \/ load_images_for_gallery_raises(d.lh_samples)
                        \/ export_raises(d.lc_samples)
                        \/ export_raises(d.lh_samples)
                     THEN st_errors \cup {"main"}
                     ELSE st_errors
    /\ gpc' = "reflect"
    /\ UNCHANGED <<df_analysis, text_columns, slider, selected_data_reflect,
                   fig_reflect, images_lc, images_lh, csv_reflect>>

\* lines 644-669: the reflect selection and the reflect figure
ReflectAnalysis ==
    /\ gpc = "reflect"
    /\ IF "reflect" \in text_columns
       THEN /\ st_errors' = st_errors \cup {"reflect"}
            /\ gpc' = "done"
            /\ UNCHANGED <<selected_data_reflect, fig_reflect>>
       ELSE LET d == select_representative_samples_quantile(df_analysis, "reflect", slider)
            IN  /\ selected_data_reflect' = <<d>>
                /\ fig_reflect' = <<[lc |-> d.lc_samples, lh |-> d.lh_samples]>>
                /\ gpc' = "galleries"
                /\ UNCHANGED st_errors
    /\ UNCHANGED <<df_analysis, text_columns, slider, selected_data_main,
                   images_lc, images_lh, csv_reflect>>

\* lines 671-743: the two galleries of the reflect tab.  Lines 682 and 714
\* read selected_data_main: NameError when it is unbound.
ReflectGalleries ==
    /\ gpc = "galleries"
    /\ IF selected_data_main = <<>>
       THEN /\ st_errors' = st_errors \cup {"reflect"}
            /\ gpc' = "done"
            /\ UNCHANGED <<images_lc, images_lh>>
       ELSE LET d == selected_data_main[1]
            IN  IF load_images_for_gallery_raises(d.lc_samples)
                THEN /\ st_errors' = st_errors \cup {"reflect"}
                     /\ gpc' = "done"
                     /\ UNCHANGED <<images_lc, images_lh>>
                ELSE /\ images_lc' = <<load_images_for_gallery(d.lc_samples)>>
                     /\ IF load_images_for_gallery_raises(d.lh_samples)
                        THEN /\ st_errors' = st_errors \cup {"reflect"}
                             /\ gpc' = "done"
                             /\ UNCHANGED images_lh
                        ELSE /\ images_lh' = <<load_images_for_gallery(d.lh_samples)>>
                             /\ gpc' = "export"
                             /\ UNCHANGED st_errors
    /\ UNCHANGED <<df_analysis, text_columns, slider, selected_data_main,
                   selected_data_reflect, fig_reflect, csv_reflect>>

\* lines 745-769: the two exports of the reflect tab
ReflectExport ==
    /\ gpc = "export"
    /\ LET d == selected_data_reflect[1]
       IN  IF export_raises(d.lc_samples)
           THEN /\ st_errors' = st_errors \cup {"reflect"}
                /\ UNCHANGED csv_reflect
           ELSE IF export_raises(d.lh_samples)
           THEN /\ st_errors' = st_errors \cup {"reflect"}
                /\ csv_reflect' = <<to_csv(d.lc_samples, "L_bin", "C_bin")>>
           ELSE /\ csv_reflect' = <<to_csv(d.lc_samples, "L_bin", "C_bin"),
                                    to_csv(d.lh_samples, "L_bin_h", "h_bin")>>
                /\ UNCHANGED st_errors
    /\ gpc' = "done"
    /\ UNCHANGED <<df_analysis, text_columns, slider, selected_data_main,
                   selected_data_reflect, fig_reflect, images_lc, images_lh>>

InitAnalysis == AnalysisInit /\ RemapIdle /\ GridIdle /\ TabIdle /\ LchIdle /\ SwatchIdle /\ LoaderIdle /\ TwiceIdle

NextAnalysis ==
    \/ MainAnalysis /\ UNCHANGED notAnalysis
    \/ ReflectAnalysis /\ UNCHANGED notAnalysis
    \/ ReflectGalleries /\ UNCHANGED notAnalysis
    \/ ReflectExport /\ UNCHANGED notAnalysis

SpecAnalysis == InitAnalysis /\ [][NextAnalysis]_vars

(***************************************************************************)
(* Vocabulary of the properties.                                           *)
(***************************************************************************)
\* the caller's image as the caller sees it
InputPx == heap[CallerImage].px

\* the returned image
OutputPx == heap[result].px

SameSize == heap[CallerImage].size = heap[CallerMask].size

\* remap returned without logging an error
Remapped == pc = "done" /\ ~logged

\* hair pixel of the specification: the RGB mask value is not (0,0,0)
IsHair(k) == convert_RGB(heap[CallerMask]).px[k] # <<0, 0, 0>>

Positions == DOMAIN InputPx

BadLab(lab) == lab.kind \in {"nan", "str"}

\* the cluster indices at minimal distance from colour p
Tied(p) ==
    {c \in 1..3 : \A j \in 1..3 :
        norm2(cluster_centers[c], p) <= norm2(cluster_centers[j], p)}

Lowest(S) == CHOOSE c \in S : \A j \in S : c <= j

(***************************************************************************)
(* Properties of remap_hair_colors.                                        *)
(***************************************************************************)
\* C1: a pixel is treated as hair (non_black_mask is TRUE there) if and only
\* if the RGB mask value differs from (0,0,0); one nonzero channel suffices.
C1_HairIffMaskNotBlack ==
    pc \in {"clusters", "loop", "done"} /\ non_black_mask # <<>> =>
        \A k \in Positions : non_black_mask[k] <=> IsHair(k)

\* C2: after a remap every hair pixel holds one of the 3 cluster colours, and
\* no cluster colour is nearer to the pixel's original colour.
C2_HairPixelsNearest ==
    Remapped =>
        \A k \in Positions : IsHair(k) =>
            /\ \E c \in 1..3 : OutputPx[k] = cluster_centers[c]
            /\ \A c \in 1..3 :
                  norm2(OutputPx[k], InputPx[k]) <= norm2(cluster_centers[c], InputPx[k])

\* C3: a hair pixel whose original colour is at the same minimal distance
\* from two or more clusters becomes the colour of the lowest tied cluster.
C3_TieLowestIndex ==
    Remapped =>
        \A k \in Positions :
            IsHair(k) /\ Cardinality(Tied(InputPx[k])) >= 2 =>
                OutputPx[k] = cluster_centers[Lowest(Tied(InputPx[k]))]

\* C4: every pixel that is not a hair pixel (its mask value is (0,0,0)) has
\* in the returned image the RGB value it has in the input image.
C4_NonHairUnchanged ==
    pc = "done" /\ SameSize =>
        \A k \in Positions : ~IsHair(k) => OutputPx[k] = InputPx[k]

C4_Witness ==
    /\ Remapped
    /\ \E k \in Positions : ~IsHair(k) /\ OutputPx[k] \notin {cluster_centers[c] : c \in 1..3}
    /\ \E k \in Positions : IsHair(k) /\ OutputPx[k] # InputPx[k]

\* C5: when image and mask differ in size, remap returns the original image
\* unchanged and signals DimensionMismatchError to its caller.
C5_MismatchSignalled ==
    pc = "done" /\ ~SameSize =>
        OutputPx = InputPx /\ exc = "DimensionMismatchError"

\* C6: no partial success: remap returns the original image with the failure
\* reported, or an image with every hair pixel recoloured to its nearest
\* cluster colour.
C6_NoPartialSuccess ==
    pc = "done" =>
        \/ logged /\ OutputPx = InputPx
        \/ /\ ~logged
           /\ \A k \in Positions : IsHair(k) =>
                 OutputPx[k] = cluster_centers[Lowest(Tied(InputPx[k]))]

\* C7: when a cluster's Lab triplet is invalid (NaN or non-numeric) and the
\* conversion is reached, the failure leaves remap as a ConversionError.
C7_ConversionErrorPropagates ==
    pc = "done" /\ SameSize /\ (\E i \in 1..3 : BadLab(color_data[i])) =>
        exc = "ConversionError"

\* the returned image is a new object of the input image's size and mode
ResultIsNew ==
    pc = "done" =>
        /\ result \notin {CallerImage, CallerMask}
        /\ heap[result].size = heap[CallerImage].size
        /\ heap[result].mode = heap[CallerImage].mode

C9_OrderIndependent ==
    Remapped =>
        OutputPx = [k \in Positions |->
                      IF \A ch \in 1..3 : heap[mask].px[k][ch] # 0
                      THEN find_closest_color(InputPx[k], cluster_centers)
                      ELSE InputPx[k]]

\* the second position was recoloured before the first
C9_Witness ==
    /\ pc = "loop"
    /\ indices = <<1>>
    /\ Len(non_black_mask) >= 2
    /\ non_black_mask[2]
    /\ heap[image_np].px[2] # InputPx[2]
    /\ InputPx[1] # InputPx[2]

(***************************************************************************)
(* Properties of select_representative_samples_quantile.                   *)
(***************************************************************************)
CellIndices == 0..(grid_size - 1)

\* the rows assigned to cell (i, j) by the bin columns c1, c2
Members(c1, c2, i, j) ==
    {p \in DOMAIN df_lch : df_lch[p][c1] = i /\ df_lch[p][c2] = j}

\* squared distance, in units of 1/(2*grid_size), of row p's (x1, x2) point
\* to ((b1[i]+b1[i+1])/2, (b2[j]+b2[j+1])/2)
ToCenter(p, x1, x2, b1, b2, i, j) ==
    (2 * grid_size * df_lch[p][x1] - b1[i + 1] - b1[i + 2]) ^ 2
    + (2 * grid_size * df_lch[p][x2] - b2[j + 1] - b2[j + 2]) ^ 2

\* sel holds, for every non-empty cell, exactly one row: a member of the cell
\* at minimal distance to the cell's centre, the first such in input order
NearestFirst(sel, c1, c2, x1, x2, b1, b2) ==
    \A i \in CellIndices, j \in CellIndices :
        LET M == Members(c1, c2, i, j)
            reps == {n \in DOMAIN sel : sel[n] \in M}
        IN  M # {} =>
              /\ Cardinality(reps) = 1
              /\ \A n \in reps, m \in M :
                    /\ ToCenter(sel[n], x1, x2, b1, b2, i, j)
                          <= ToCenter(m, x1, x2, b1, b2, i, j)
                    /\ ToCenter(sel[n], x1, x2, b1, b2, i, j)
                          = ToCenter(m, x1, x2, b1, b2, i, j) => sel[n] <= m

\* C10: in the L-C grid and in the L-h grid, the representative of each
\* non-empty cell (i,j) is a row of the cell at minimal Euclidean distance
\* to the midpoint of the cell's boundaries, the first in input order among
\* the rows at that distance.
C10_RepresentativeNearestCenter ==
    qpc = "returned" =>
        /\ NearestFirst(selected_lc, "L_bin", "C_bin", "L", "C", bins.L, bins.C)
        /\ NearestFirst(selected_lh, "L_bin_h", "h_bin", "L", "h", bins.L, bins.h)

\* two rows of one L-C cell with different points are both nearest to its
\* centre, and an L-h cell holds a row nearer than another of its rows
C10_Witness ==
    /\ qpc = "returned"
    /\ grid_size >= 2
    /\ \E i \in CellIndices, j \in CellIndices :
          \E p, q \in Members("L_bin", "C_bin", i, j) :
              /\ p < q
              /\ <<df_lch[p].L, df_lch[p].C>> # <<df_lch[q].L, df_lch[q].C>>
              /\ ToCenter(p, "L", "C", bins.L, bins.C, i, j)
                    = ToCenter(q, "L", "C", bins.L, bins.C, i, j)
              /\ \E n \in DOMAIN selected_lc : selected_lc[n] = p
    /\ \E i \in CellIndices, j \in CellIndices :
          \E p, q \in Members("L_bin_h", "h_bin", i, j) :
              /\ q < p
              /\ ToCenter(p, "L", "h", bins.L, bins.h, i, j)
                    < ToCenter(q, "L", "h", bins.L, bins.h, i, j)
              /\ \E n \in DOMAIN selected_lh : selected_lh[n] = p

\* the cut is done
Binned == qpc \in {"select_lc", "select_lh", "returned"}

\* x (times grid_size) lies in the interval of bin i of the boundaries b:
\* [b[0], b[1]] for bin 0, (b[i], b[i+1]] for a later bin
InBin(x, b, i) ==
    IF i = 0 THEN b[1] <= x /\ x <= b[2]
    ELSE b[i + 1] < x /\ x <= b[i + 2]

\* column c holds i exactly for the rows whose value of x lies in bin i of b
BinIsInterval(c, x, b) ==
    \A p \in DOMAIN df_lch, i \in CellIndices :
        df_lch[p][c] = i <=> InBin(grid_size * df_lch[p][x], b, i)

\* C11: on each axis a row has bin index i if and only if its value lies in
\* the interval between boundary[i] and boundary[i+1] (bin 0 closed, later
\* bins open on the left), also when quantile boundaries coincide.
C11_BinIffInInterval ==
    Binned =>
        /\ BinIsInterval("L_bin", "L", bins.L)
        /\ BinIsInterval("C_bin", "C", bins.C)
        /\ BinIsInterval("L_bin_h", "L", bins.L)
        /\ BinIsInterval("h_bin", "h", bins.h)

\* all rows share one value of x
AllSame(x) == \A p, q \in DOMAIN df_lch : df_lch[p][x] = df_lch[q][x]

\* C12: when all rows share the same value on an axis, every row has bin 0
\* on that axis (and the selection does not fail).
C12_SameValueBinZero ==
    /\ df_region # <<>> /\ grid_size >= 1 => qpc \notin {"KeyError", "ZeroDivisionError"}
    /\ Binned =>
        /\ AllSame("L") => \A p \in DOMAIN df_lch :
                              df_lch[p].L_bin = 0 /\ df_lch[p].L_bin_h = 0
        /\ AllSame("C") => \A p \in DOMAIN df_lch : df_lch[p].C_bin = 0
        /\ AllSame("h") => \A p \in DOMAIN df_lch : df_lch[p].h_bin = 0

\* the call ended in an exception
GridRaised == qpc \in {"KeyError", "ZeroDivisionError", "IndexError"}

\* no grid has been produced
NoGrids == bins = <<>> /\ selected_lc = <<>> /\ selected_lh = <<>>

\* C13: with an empty row sequence the selection fails, for every grid
\* size: it never gets to binning or to a return, produces no grid, and
\* the step from the quantile computation is the exception.
C13_EmptyRowsFail ==
    /\ [](df_region = <<>> => ~Binned /\ NoGrids)
    /\ [][df_region = <<>> /\ qpc = "quantiles" => GridRaised']_vars

C13_Witness == df_region = <<>> /\ grid_size >= 2 /\ qpc = "KeyError"

\* C14: with a grid size below 2 (1, 0 or negative) and at least one row
\* the selection fails: it never gets to binning and returns no grids.
C14_SmallGridFails ==
    df_region # <<>> /\ grid_size < 2 => ~Binned /\ NoGrids

\* the L values of the rows are pairwise distinct
DistinctL == \A p, q \in DOMAIN df_lch : p # q => df_lch[p].L # df_lch[q].L

\* C15: n rows with pairwise distinct L and a grid size that divides n:
\* every L bin holds exactly n / grid_size rows.
C15_EqualCountPerLBin ==
    (Binned /\ DistinctL /\ Len(df_lch) % grid_size = 0) =>
        \A i \in CellIndices :
            /\ Cardinality({p \in DOMAIN df_lch : df_lch[p].L_bin = i})
                  = Len(df_lch) \div grid_size
            /\ Cardinality({p \in DOMAIN df_lch : df_lch[p].L_bin_h = i})
                  = Len(df_lch) \div grid_size

C15_Witness ==
    /\ Binned /\ DistinctL /\ grid_size = 2 /\ Len(df_lch) = 4
    /\ df_lch[1].L > df_lch[2].L

\* the values of column x
Values(x) == {df_lch[p][x] : p \in DOMAIN df_lch}

Minimum(S) == CHOOSE m \in S : \A v \in S : m <= v
Maximum(S) == CHOOSE m \in S : \A v \in S : m >= v

\* b (held times grid_size) has grid_size + 1 entries, is non-decreasing,
\* starts at the minimum and ends at the maximum of column x
BoundariesOf(b, x) ==
    /\ Len(b) = grid_size + 1
    /\ \A k \in 1..(Len(b) - 1) : b[k] <= b[k + 1]
    /\ b[1] = grid_size * Minimum(Values(x))
    /\ b[Len(b)] = grid_size * Maximum(Values(x))

\* C16: for non-empty rows and grid_size >= 2 each returned boundary array
\* (L, C, h) has grid_size + 1 entries, is non-decreasing, and its first
\* and last entries are the minimum and the maximum of the rows' values.
C16_BoundaryArrays ==
    (Binned /\ df_region # <<>> /\ grid_size >= 2) =>
        /\ BoundariesOf(bins.L, "L")
        /\ BoundariesOf(bins.C, "C")
        /\ BoundariesOf(bins.h, "h")

\* two boundaries of L coincide and a third differs
C16_Witness ==
    /\ qpc = "returned" /\ grid_size >= 2 /\ Len(df_region) >= 2
    /\ \E k \in 1..grid_size : bins.L[k] = bins.L[k + 1]
    /\ bins.L[1] < bins.L[grid_size + 1]
    /\ bins.C[1] < bins.C[2]

\* the cells (i, j) of the grid of columns c1, c2 that hold a row
NonEmptyCells(c1, c2) ==
    {c \in CellIndices \X CellIndices : Members(c1, c2, c[1], c[2]) # {}}

\* sel holds exactly one row of every non-empty cell and nothing else, no
\* row twice
OnePerCell(sel, c1, c2) ==
    /\ Len(sel) = Cardinality(NonEmptyCells(c1, c2))
    /\ Len(sel) <= Len(df_lch) /\ Len(sel) <= grid_size * grid_size
    /\ \A m, n \in DOMAIN sel : m # n => sel[m] # sel[n]
    /\ \A c \in NonEmptyCells(c1, c2) :
          Cardinality({n \in DOMAIN sel : sel[n] \in Members(c1, c2, c[1], c[2])}) = 1

\* C17: with more cells than rows (grid_size^2 > number of rows, at least
\* one row, grid_size >= 2) the selection completes without error and each
\* grid holds exactly one representative per non-empty cell: at most
\* min(rows, grid_size^2) of them and no row twice.
C17_SparseGridOnePerCell ==
    (df_region # <<>> /\ grid_size >= 2
        /\ grid_size * grid_size > Len(df_region)) =>
        /\ ~GridRaised
        /\ qpc \in {"select_lh", "returned"} => OnePerCell(selected_lc, "L_bin", "C_bin")
        /\ qpc = "returned" => OnePerCell(selected_lh, "L_bin_h", "h_bin")

\* three rows in a 2 x 2 grid: two share an L-C cell, one is alone
C17_Witness ==
    /\ qpc = "returned" /\ grid_size = 2 /\ Len(df_region) = 3
    /\ Len(selected_lc) = 2
    /\ Len(selected_lh) >= 2

\* C18: 'Use Best Balanced' picks a row whose balance score is the minimum
\* over all rows of df, and among rows of that score the first in input
\* order.
C18_BestBalancedIsFirstMinimum ==
    apc = "rerun" =>
        \E n \in DOMAIN df_data :
            /\ best_sample[1].index = df_data[n].index
            /\ best_sample[1].proportions = df_data[n].proportions
            /\ \A m \in DOMAIN df_data :
                  /\ balance_score(df_data[n].proportions)
                        <= balance_score(df_data[m].proportions)
                  /\ m < n => balance_score(df_data[m].proportions)
                                 > balance_score(df_data[n].proportions)

\* two rows of different proportions tie for the least score
C18_Witness ==
    /\ apc = "rerun"
    /\ Len(df_data) >= 2
    /\ best_sample = <<samples_info[1]>>
    /\ samples_info[1].balance_score = samples_info[2].balance_score
    /\ samples_info[1].proportions # samples_info[2].proportions

\* C19: with no rows the selection of the most balanced sample does not
\* take place: the run ends in an error shown to the user, and no row and
\* no index is produced.
C19_EmptyNoSelection ==
    /\ [](Len(df_data) = 0 /\ apc # "idle" =>
            /\ apc \in {"loaded", "done"}
            /\ best_sample = <<>>
            /\ selected_sample_index = <<>>
            /\ selected_sample = <<>>
            /\ apc = "done" => st_error = "No data found")
    /\ [][Len(df_data) = 0 /\ apc = "loaded" =>
            apc' = "done" /\ st_error' = "No data found"]_vars

C19_Witness ==
    Len(df_data) = 0 /\ apc = "done" /\ st_error = "No data found"

\* the index names no row of df
InvalidIndex == sample_index < 0 \/ sample_index >= Len(df_data)

\* C20: process_hair_color_remapping_with_sample with an index below 0 or
\* not below the number of rows reads no row and returns the given image
\* unchanged; with a valid index the remapping is done with exactly the
\* row at that position.
C20_IndexSelectsRow ==
    /\ [](InvalidIndex /\ pc # "idle" =>
            /\ pc \in {"select", "done"}
            /\ color_data = <<>>
            /\ pc = "done" => result = image)
    /\ [][InvalidIndex /\ pc = "select" =>
            pc' = "done" /\ result' = image /\ image' = image /\ heap' = heap]_vars
    /\ [](~InvalidIndex /\ pc \notin {"idle", "select"} /\ image # 0 /\ mask # 0 =>
            color_data = df_data[sample_index + 1].colors)

\* the index is the number of rows, and the caller gets its image back
C20_Witness ==
    /\ Len(df_data) >= 1 /\ sample_index = Len(df_data)
    /\ pc = "done" /\ result = CallerImage /\ logged

\* |k - 100| for a proportion k in thirds of a percent: 3 * |p - 100/3|
Off(k) == IF k >= 100 THEN k - 100 ELSE 100 - k

\* C21: the balance score of a row is the sum over its three proportions p
\* of |p - 100/3|; it is never negative, it is 0 exactly when the three
\* proportions are 100/3, and it is 400/3 for (100, 0, 0).  (Scores are
\* held times 3.)
C21_BalanceScore ==
    \A n \in DOMAIN samples_info :
        LET pr == samples_info[n].proportions
            sc == samples_info[n].balance_score
        IN  /\ pr = df_data[n].proportions
            /\ sc = Off(pr[1]) + Off(pr[2]) + Off(pr[3])
            /\ sc >= 0
            /\ sc = 0 <=> pr = <<100, 100, 100>>
            /\ pr = <<300, 0, 0>> => sc = 400

C21_Witness ==
    /\ Len(samples_info) = 2
    /\ samples_info[1].proportions = <<300, 0, 0>>
    /\ samples_info[1].balance_score = 400
    /\ samples_info[2].proportions = <<100, 100, 100>>
    /\ samples_info[2].balance_score = 0

\* C22: lab_to_lch returns L unchanged and a hue h with 0 <= h < 360 for
\* every input; h is 0 when b = 0 and a > 0, 180 when b = 0 and a < 0, and
\* for a = b = 0 the chroma is 0.
C22_HueInRange ==
    lch_out # <<>> =>
        /\ lch_out[1] = lch_in[1]
        /\ 0 <= lch_out[3] /\ lch_out[3] < 360
        /\ lch_in[3] = 0 /\ lch_in[2] > 0 => lch_out[3] = 0
        /\ lch_in[3] = 0 /\ lch_in[2] < 0 => lch_out[3] = 180
        /\ lch_in[3] = 0 /\ lch_in[2] = 0 => lch_out[2] = 0

\* C23: in a sequence of calls made one after the other, a mapping file is
\* loaded at most once as long as there was no reload_mappings call, also
\* when that load found the file missing or unreadable; each
\* reload_mappings call adds exactly one load of each file.
C23_LoadedOncePerReload ==
    \A f \in Files :
        /\ loads[f] <= 1 + thread[1].reloads
        /\ thread[1].pc = "done" =>
              /\ thread[1].reloads <= loads[f]
              /\ thread[1].call = "reload_mappings" => loads[f] = thread[1].mark[f] + 1
              /\ thread[1].call # "reload_mappings" => loads[f] <= thread[1].mark[f] + 1
              /\ file_of(thread[1].call) = f => loads[f] >= 1

\* a load of a missing file, a lookup that did not load again, and a reload
C23_Witness ==
    /\ thread[1].pc = "done" /\ thread[1].call = "reload_mappings"
    /\ thread[1].ncalls = 3 /\ thread[1].reloads = 1
    /\ file["shades"] = "missing" /\ loads["shades"] = 2
    /\ loads["category"] = 1

\* a load call of thread 2 has returned
Returned(t) == thread[t].pc \in {"empty", "done", "AttributeError"}

\* C24: while thread 1 runs reload_mappings, each load call of thread 2
\* returns a table, never None, and the .empty tests of the lookups do
\* not fail.
C24_LoadNeverNone ==
    /\ thread[2].pc # "AttributeError"
    /\ Returned(2) => thread[2].ret[thread[2].cur] # "None"

\* the positions in the CSV of the rows that match the shade argument
Matching ==
    {p \in DOMAIN csv : shade = "None" \/ (has_shade /\ csv[p].shade = shade)}

\* C30: load_respondent_data returns at most 5 rows; when a shade is given
\* every returned row has that shade; the returned rows are the first (up
\* to 5) matching rows, in the order of the CSV.
C30_FirstFiveOfShade ==
    lpc = "returned" =>
        /\ Len(df_loaded) <= 5
        /\ shade # "None" => \A n \in DOMAIN df_loaded : df_loaded[n].shade = shade
        /\ Len(df_loaded) = IF Cardinality(Matching) < 5 THEN Cardinality(Matching) ELSE 5
        /\ \A n \in DOMAIN df_loaded :
              /\ df_loaded[n].index + 1 \in Matching
              /\ csv[df_loaded[n].index + 1] = df_loaded[n]
              /\ Cardinality({p \in Matching : p < df_loaded[n].index + 1}) = n - 1

\* six rows of the shade among seven: the sixth is left out
C30_Witness ==
    /\ lpc = "returned" /\ shade = "A" /\ has_shade
    /\ Len(csv) = 7 /\ Cardinality(Matching) = 6
    /\ csv[1].shade = "B"
    /\ Len(df_loaded) = 5 /\ df_loaded[1].index = 1

\* C25: each entry of get_sample_info carries an 'index' equal to its
\* position in the list, so that samples_info[entry['index']] is that
\* entry, and the index 'Use Best Balanced' chooses addresses the sample
\* of least score.
C25_IndexIsPosition ==
    /\ \A n \in DOMAIN samples_info : samples_info[n].index = n - 1
    /\ apc = "rerun" =>
          /\ selected_sample_index[1] + 1 \in DOMAIN samples_info
          /\ samples_info[selected_sample_index[1] + 1] = best_sample[1]

\* an entry of least score
IsBest(entry) ==
    /\ \E n \in DOMAIN samples_info : entry = samples_info[n]
    /\ \A m \in DOMAIN samples_info :
          entry.balance_score <= samples_info[m].balance_score

\* C26: in the run that follows a press of 'Use Best Balanced' the sample
\* shown as selected, which is the one the remap uses, is the sample of
\* least balance score, whatever the selectbox held before.
C26_BestSelectedAfterPress ==
    (reruns >= 1 /\ apc = "done" /\ selected_sample # <<>>) => IsBest(selected_sample[1])

RECURSIVE SumOver(_, _)
\* the sum of n[c] over the cells c of S
SumOver(n, S) ==
    IF S = {} THEN 0
    ELSE LET c == CHOOSE x \in S : TRUE IN n[c] + SumOver(n, S \ {c})

\* the member counts of the cells of the grid of columns c1, c2 add up to
\* the number of rows
CountsAddUp(c1, c2) ==
    LET cells == CellIndices \X CellIndices
        n == [c \in cells |-> Cardinality(Members(c1, c2, c[1], c[2]))]
    IN  SumOver(n, cells) = Len(df_lch)

\* C27: every input row has a bin index on each of the axes L, C and h, so
\* it is in exactly one cell of the L-C grid and one of the L-h grid, and
\* in each grid the member counts of the cells add up to the number of
\* rows.
C27_EveryRowBinned ==
    Binned =>
        /\ \A p \in DOMAIN df_lch :
              /\ df_lch[p].L_bin \in CellIndices /\ df_lch[p].C_bin \in CellIndices
              /\ df_lch[p].L_bin_h \in CellIndices /\ df_lch[p].h_bin \in CellIndices
        /\ CountsAddUp("L_bin", "C_bin")
        /\ CountsAddUp("L_bin_h", "h_bin")

\* C28: remap_hair_colors applied to the image it returned, with the same
\* mask and the same colour row, returns an image identical to the first
\* result (both calls having remapped without an error).
C28_RemapIdempotent ==
    (runs = 2 /\ pc = "done" /\ ~logged /\ ~first_logged) =>
        /\ heap[result].px = heap[first_result].px
        /\ heap[result].size = heap[first_result].size
        /\ heap[result].mode = heap[first_result].mode

\* the first call recoloured a pixel and left another one alone
C28_Witness ==
    /\ runs = 2 /\ pc = "done" /\ ~logged /\ ~first_logged
    /\ Len(InputPx) = 2
    /\ heap[first_result].px[1] # InputPx[1]
    /\ heap[first_result].px[2] = InputPx[2]
    /\ result # first_result
(***************************************************************************)
(* Properties of the quantile analysis of the second tab.                  *)
(***************************************************************************)
\* the labels of the rows of a table of samples, of a gallery, of an export
LabelsOf(t) == {t[n].label : n \in DOMAIN t}
ShownIn(gallery) == {gallery[n].respondent_id : n \in DOMAIN gallery}
ExportedIn(rows) == {rows[n][1] : n \in DOMAIN rows}

\* C29: when the reflect selection of a run succeeded, the two galleries of
\* the reflect tab are built, whether or not the main analysis succeeded,
\* and show the rows selected for the reflect colour: the rows of the
\* reflect figure and of the reflect exports.
C29_ReflectGalleriesShowReflect ==
    (gpc = "done" /\ selected_data_reflect # <<>>) =>
        /\ images_lc # <<>>
        /\ images_lh # <<>>
        /\ ShownIn(images_lc[1]) = LabelsOf(fig_reflect[1].lc)
        /\ ShownIn(images_lh[1]) = LabelsOf(fig_reflect[1].lh)
        /\ (Len(csv_reflect) >= 1 => ShownIn(images_lc[1]) = ExportedIn(csv_reflect[1]))
        /\ (Len(csv_reflect) = 2 => ShownIn(images_lh[1]) = ExportedIn(csv_reflect[2]))

====
